---- MODULE Spec2Model ----
(***************************************************************************)
(* Lexer and recursive-descent parser of the simplified Prolog grammar     *)
(* (src/main.py).  The text of one file is tokenized by Lexer.tokenize,    *)
(* one regex match per step, and the token list is then consumed by        *)
(* Parser.parse_program.  The recursive procedures of the parser are run   *)
(* on an explicit stack of program points; every step holds at most one    *)
(* call of match() or advance().                                           *)
(***************************************************************************)
EXTENDS Integers, Sequences, FiniteSets, TLC

\* ------------------------------------------------------------------ bounds
\* Longest text drawn from RawAlphabet, character by character.
MaxChars == 3
\* Most lexemes concatenated into one text, alone or behind a prefix.
MaxLexemes == 3
\* Most arguments of a fact of the missing-comma family.
MaxArgs == 3

\* -------------------------------------------------------- character classes
Digits == {"0", "1", "2", "3", "4", "5", "6", "7", "8", "9"}
Lowers == {"a", "b", "c", "d", "e", "f", "g", "h", "i", "j", "k", "l", "m",
           "n", "o", "p", "q", "r", "s", "t", "u", "v", "w", "x", "y", "z"}
Uppers == {"A", "B", "C", "D", "E", "F", "G", "H", "I", "J", "K", "L", "M",
           "N", "O", "P", "Q", "R", "S", "T", "U", "V", "W", "X", "Y", "Z"}
\* [a-zA-Z0-9_]
IdentChars == Lowers \cup Uppers \cup Digits \cup {"_"}
\* [A-Z_]
VarStart == Uppers \cup {"_"}
\* [\.,\(\),]
Punct == {".", ",", "(", ")"}
\* [ \t]
Blank == {" ", "\t"}

\* --------------------------------------------------------------- the regex
\* The character at 0-based offset p of txt.
CharAt(txt, p) == txt[p + 1]

\* End offset of the greedy run of characters of S that starts at offset p.
RECURSIVE RunEnd(_, _, _)
RunEnd(txt, p, S) ==
  IF p < Len(txt) /\ CharAt(txt, p) \in S THEN RunEnd(txt, p + 1, S) ELSE p

\* The two-character operators '?-' and ':-' at offset p.
TwoCharAt(txt, p, c) ==
  /\ p + 1 < Len(txt)
  /\ CharAt(txt, p) = c
  /\ CharAt(txt, p + 1) = "-"

\* m.lastgroup: the first alternative of tok_regex, in the order of
\* token_specification, that matches at offset p (p < Len(txt)).
MatchKind(txt, p) ==
  LET c == CharAt(txt, p) IN
  IF c \in Digits THEN "NUMBER"
  ELSE IF c \in Lowers THEN "ATOM"
  ELSE IF c \in VarStart THEN "VARIABLE"
  ELSE IF TwoCharAt(txt, p, "?") \/ TwoCharAt(txt, p, ":") \/ c \in Punct
       THEN "SPECIAL"
  ELSE IF c \in Blank THEN "SKIP"
  ELSE IF c = "\n" THEN "NEWLINE"
  ELSE "MISMATCH"

\* m.end(): the offset after the match at offset p.
MatchEnd(txt, p) ==
  LET k == MatchKind(txt, p) IN
  IF k = "NUMBER" THEN RunEnd(txt, p, Digits)
  ELSE IF k \in {"ATOM", "VARIABLE"} THEN RunEnd(txt, p + 1, IdentChars)
  ELSE IF k = "SPECIAL"
       THEN (IF CharAt(txt, p) \in Punct THEN p + 1 ELSE p + 2)
  ELSE IF k = "SKIP" THEN RunEnd(txt, p, Blank)
  ELSE p + 1

\* m.group(): the matched characters.
MatchValue(txt, p) == SubSeq(txt, p + 1, MatchEnd(txt, p))

\* A token (kind, value, line).
Token(k, v, l) == [kind |-> k, value |-> v, line |-> l]

\* ------------------------------------------------------------------ inputs
RawAlphabet == {"1", "a", "X", "_", "?", "-", ":", ".", ",", "(", ")",
                " ", "\n", "#"}

SeqsUpTo(S, n) == UNION {[1..k -> S] : k \in 0..n}

RawTexts == SeqsUpTo(RawAlphabet, MaxChars)

Lexemes == {<<"a">>, <<"X">>, <<"1">>, <<"?", "-">>, <<":", "-">>, <<".">>,
            <<",">>, <<"(">>, <<")">>, <<"#">>, <<"\n">>, <<" ">>}

RECURSIVE Flatten(_)
Flatten(ss) == IF ss = <<>> THEN <<>> ELSE Head(ss) \o Flatten(Tail(ss))

LexemeTexts == {Flatten(ss) : ss \in SeqsUpTo(Lexemes, MaxLexemes)}

\* The texts of the documented scenarios, and four longer programs.
SampleTexts == {
  <<"p", "a", "r", "e", "n", "t", "(", "t", "o", "m", ",", " ", "b", "o", "b", ")", ".">>,
  <<"a", "n", "c", "e", "s", "t", "o", "r", "(", "X", ",", "Y", ")", " ", ":", "-", " ",
    "p", "a", "r", "e", "n", "t", "(", "X", ",", "Y", ")", ".">>,
  <<"?", "-", " ", "p", "a", "r", "e", "n", "t", "(", "t", "o", "m", ",", " ", "b", "o", "b", ")", ".">>,
  <<"p", "a", "r", "e", "n", "t", "(", "t", "o", "m", " ", "b", "o", "b", ")", ".">>,
  <<"1", "2", "3", " ", ":", "-", " ", "f", "o", "o", ".">>,
  <<"?", "-", " ", "f", "o", "o", "(", "X", ")", "\n">>,
  <<"f", "(", "X", ",", " ", "g", "(", "Y", ",", " ", "1", ")", ")", ".">>,
  <<"p", "(", "f", "(", "a", ")", ")", ".", "\n", "q", "(", "X", ")", " ", ":", "-", " ", "p", "(", "X", ")",
    ",", " ", "r", "(", "1", ")", ".", "\n", "?", "-", " ", "q", "(", "a", ")", ",", " ",
    "p", "(", "b", ")", ".">>,
  <<"?", "-", " ", "a", ".", " ", "#">>,
  <<"p", "(", "a", ")", "\n", "\t", ":", "-", " ", "q", ".", "\n", "?", "?", "-", " ",
    "r", "(", "_", "x", ",", ",", ")">>,
  <<"a", " ", ":", "-", " ", "a", " ", "a", " ", ":", "-", " ", "a", " ", "a">> }

\* Single-line facts  p(arg sep arg ... ).  whose arguments are atoms; a
\* separator without a comma is a missing comma.
FactAtoms == {<<"a">>, <<"t", "o", "m">>}
FactSeps == {<<",">>, <<",", " ">>, <<" ">>, <<"\t", " ">>}
NoComma == {<<" ">>, <<"\t", " ">>}

RECURSIVE FactArgs(_, _)
FactArgs(args, seps) ==
  IF Len(args) = 1 THEN args[1]
  ELSE args[1] \o seps[1] \o FactArgs(Tail(args), Tail(seps))

FactText(args, seps) ==
  <<"p", "(">> \o FactArgs(args, seps) \o <<")", ".">>

FactShapes ==
  UNION {[args : [1..n -> FactAtoms], seps : [1..(n - 1) -> FactSeps]] : n \in 2..MaxArgs}

FactTexts == {FactText(f.args, f.seps) : f \in FactShapes}

\* Lexeme texts behind the opening of an argument list, of a structure, of
\* a query or of the body of a rule.
Prefixes == {<<"a", "(">>, <<"a", "(", "a", "(">>, <<"?", "-">>, <<"a", ":", "-">>}

PrefixedTexts ==
  {p \o Flatten(ss) : p \in Prefixes, ss \in SeqsUpTo(Lexemes, MaxLexemes)}

Texts == RawTexts \cup LexemeTexts \cup PrefixedTexts \cup SampleTexts \cup FactTexts

\* ------------------------------------------------------------------- state
VARIABLES
  text,      \* Lexer.text
  lexpos,    \* pos of Lexer.tokenize
  line,      \* Lexer.line
  tokens,    \* Lexer.tokens, then Parser.tokens
  starts,    \* the offset each token was matched at (history)
  pos,       \* Parser.pos
  errors,    \* Parser.errors
  stack,     \* program points of the active parse_* calls, innermost first
  last,      \* the branch the last step took (history)
  steps,     \* the number of steps parse_program has taken (history)
  pc         \* "lex", "parse" or "done"

vars == <<text, lexpos, line, tokens, starts, pos, errors, stack, last, steps, pc>>

parserVars == <<pos, errors, stack, steps>>

Init ==
  /\ text \in Texts
  /\ lexpos = 0
  /\ line = 1
  /\ tokens = <<>>
  /\ starts = <<>>
  /\ pos = 0
  /\ errors = <<>>
  /\ stack = <<>>
  /\ last = "init"
  /\ steps = 0
  /\ pc = "lex"

\* ------------------------------------------------------------------- lexer
LexStep(kinds) ==
  /\ pc = "lex"
  /\ lexpos < Len(text)
  /\ MatchKind(text, lexpos) \in kinds
  /\ lexpos' = MatchEnd(text, lexpos)
  /\ UNCHANGED <<text, parserVars, pc>>

\* The NEWLINE branch without the count.
LexNewlineNoCount ==
  /\ LexStep({"NEWLINE"})
  /\ last' = "lex.newline"
  /\ UNCHANGED <<line, tokens, starts>>

\* kind == 'NEWLINE': the line counter goes up, no token.
LexNewline ==
  /\ LexStep({"NEWLINE"})
  /\ line' = line + 1
  /\ last' = "lex.newline"
  /\ UNCHANGED <<tokens, starts>>

\* kind == 'SKIP': nothing.
LexSkip ==
  /\ LexStep({"SKIP"})
  /\ last' = "lex.skip"
  /\ UNCHANGED <<line, tokens, starts>>

\* kind == 'MISMATCH': an ERROR token.
LexMismatch ==
  /\ LexStep({"MISMATCH"})
  /\ tokens' = Append(tokens, Token("ERROR", MatchValue(text, lexpos), line))
  /\ starts' = Append(starts, lexpos)
  /\ last' = "lex.mismatch"
  /\ UNCHANGED line

\* NUMBER, ATOM, VARIABLE, SPECIAL: a token of that kind.
LexToken ==
  /\ LexStep({"NUMBER", "ATOM", "VARIABLE", "SPECIAL"})
  /\ tokens' = Append(tokens, Token(MatchKind(text, lexpos), MatchValue(text, lexpos), line))
  /\ starts' = Append(starts, lexpos)
  /\ last' = "lex.token"
  /\ UNCHANGED line

\* The loop ends: the EOF token; process_file then builds the Parser and
\* calls parse_program.
LexEOF ==
  /\ pc = "lex"
  /\ lexpos >= Len(text)
  /\ tokens' = Append(tokens, Token("EOF", <<>>, line))
  /\ starts' = Append(starts, lexpos)
  /\ pos' = 0
  /\ errors' = <<>>
  /\ stack' = <<"program">>
  /\ steps' = 0
  /\ last' = "lex.eof"
  /\ pc' = "parse"
  /\ UNCHANGED <<text, lexpos, line>>

LexNext == LexNewline \/ LexSkip \/ LexMismatch \/ LexToken \/ LexEOF

\* ------------------------------------------------------------------ parser
\* expected_value=None of match().
None == <<"None">>

\* Parser.current_token
Cur == tokens[pos + 1]

\* advance() without the test for the last token.
AdvanceUnguarded == pos + 1

\* Parser.advance: the cursor after the call.
Advance == IF pos < Len(tokens) - 1 THEN pos + 1 ELSE pos

\* error() that puts the new entry first.
ErrorPrepend(message, args, l) ==
  <<[line |-> l, message |-> message, args |-> args]>> \o errors

\* Parser.error: the error list after the call.  The string
\* "Syntax Error at line {line}: {message}" is kept as its parts: the line,
\* the text of the message and the values formatted into it.
Error(message, args, l) ==
  Append(errors, [line |-> l, message |-> message, args |-> args])

\* The test of match() without the case expected_value is None.
MatchesStrict(expected_type, expected_value) ==
  /\ Cur.kind = expected_type
  /\ Cur.value = expected_value

\* The test of Parser.match.
Matches(expected_type, expected_value) ==
  /\ Cur.kind = expected_type
  /\ (expected_value = None \/ Cur.value = expected_value)

\* Parser.match: the cursor and the error list after the call.
MatchPos(expected_type, expected_value) ==
  IF Matches(expected_type, expected_value) THEN Advance ELSE pos

\* match() that records nothing when it fails.
MatchErrorsSilent(expected_type, expected_value) == errors

MatchErrors(expected_type, expected_value) ==
  IF Matches(expected_type, expected_value) THEN errors
  ELSE Error("Expected {expected_type} '{expected_value}' but found {token[0]} '{token[1]}'",
             <<expected_type, expected_value, Cur.kind, Cur.value>>, Cur.line)

\* A step of the procedure whose program point is innermost on the stack.
ParseStep(label) ==
  /\ pc = "parse"
  /\ stack # <<>>
  /\ Head(stack) = label
  /\ steps' = steps + 1
  /\ UNCHANGED <<text, lexpos, line, tokens, starts>>

\* The stack after the step; parse_program returning ends the pass.
Goto(s) ==
  /\ stack' = s
  /\ pc' = IF s = <<>> THEN "done" ELSE "parse"

Return == Goto(Tail(stack))
Call(callee, continuation) == Goto(<<callee, continuation>> \o Tail(stack))

\* match(SPECIAL, value) followed by the given change of the stack.
MatchSpecial(value) ==
  /\ pos' = MatchPos("SPECIAL", value)
  /\ errors' = MatchErrors("SPECIAL", value)

\* The error branch without its call of advance().
ErrorNoAdvance(message) ==
  /\ errors' = Error(message, <<>>, Cur.line)
  /\ pos' = pos

\* The error branch with advance() called before error().
AdvanceThenError(message) ==
  /\ errors' = Error(message, <<>>, tokens[Advance + 1].line)
  /\ pos' = Advance

\* self.error(message, line of the current token); self.advance()
ErrorAdvance(message) ==
  /\ errors' = Error(message, <<>>, Cur.line)
  /\ pos' = Advance

\* parse_program, to the call of parse_query or parse_clause_list.
ParseProgram ==
  /\ ParseStep("program")
  /\ UNCHANGED <<pos, errors>>
  /\ IF Cur.value = <<"?", "-">>
     THEN last' = "program.query" /\ Goto(<<"query">> \o Tail(stack))
     ELSE last' = "program.clauses" /\ Call("clause_list", "program_tail")

\* parse_program after parse_clause_list: the optional query.
ProgramTail ==
  /\ ParseStep("program_tail")
  /\ UNCHANGED <<pos, errors>>
  /\ IF Cur.value = <<"?", "-">>
     THEN last' = "program_tail.query" /\ Goto(<<"query">> \o Tail(stack))
     ELSE last' = "program_tail.return" /\ Return

\* parse_clause_list: the test of the while loop.
ParseClauseList ==
  /\ ParseStep("clause_list")
  /\ UNCHANGED <<pos, errors>>
  /\ IF Cur.kind # "EOF" /\ Cur.value # <<"?", "-">>
     THEN last' = "clause_list.clause" /\ Goto(<<"clause">> \o stack)
     ELSE last' = "clause_list.return" /\ Return

\* parse_clause, to the call of parse_predicate.
ParseClause ==
  /\ ParseStep("clause")
  /\ UNCHANGED <<pos, errors>>
  /\ last' = "clause.predicate"
  /\ Call("predicate", "clause_tail")

\* parse_clause after parse_predicate: '.', or ':-' and a predicate list,
\* or the error branch.
ClauseTail ==
  /\ ParseStep("clause_tail")
  /\ IF Cur.value = <<".">>
     THEN /\ MatchSpecial(<<".">>)
          /\ last' = "clause_tail.fact"
          /\ Return
     ELSE IF Cur.value = <<":", "-">>
     THEN /\ MatchSpecial(<<":", "-">>)
          /\ last' = "clause_tail.rule"
          /\ Call("predicate_list", "clause_dot")
     ELSE /\ ErrorAdvance("Clause must end with '.' or use ':-' followed by a predicate list and a '.'")
          /\ last' = "clause_tail.error"
          /\ Return

\* parse_clause: the '.' that ends a rule.
ClauseDot ==
  /\ ParseStep("clause_dot")
  /\ MatchSpecial(<<".">>)
  /\ last' = "clause_dot"
  /\ Return

\* parse_query, to the call of parse_predicate_list.
ParseQuery ==
  /\ ParseStep("query")
  /\ IF Cur.value = <<"?", "-">>
     THEN /\ MatchSpecial(<<"?", "-">>)
          /\ last' = "query.start"
          /\ Call("predicate_list", "query_dot")
     ELSE /\ errors' = Error("Query should start with '?-'", <<>>, Cur.line)
          /\ pos' = pos
          /\ last' = "query.error"
          /\ Return

\* parse_query: the '.' that ends the query.
QueryDot ==
  /\ ParseStep("query_dot")
  /\ MatchSpecial(<<".">>)
  /\ last' = "query_dot"
  /\ Return

\* parse_predicate_list, to the first call of parse_predicate.
ParsePredicateList ==
  /\ ParseStep("predicate_list")
  /\ UNCHANGED <<pos, errors>>
  /\ last' = "predicate_list.first"
  /\ Call("predicate", "predicate_list_loop")

\* parse_predicate_list: the test of the while loop and the match of ','.
PredicateListLoop ==
  /\ ParseStep("predicate_list_loop")
  /\ IF Cur.value = <<",">>
     THEN /\ MatchSpecial(<<",">>)
          /\ last' = "predicate_list_loop.next"
          /\ Goto(<<"predicate">> \o stack)
     ELSE /\ UNCHANGED <<pos, errors>>
          /\ last' = "predicate_list_loop.return"
          /\ Return

\* parse_predicate: the test of the leading atom, and the error branch.
ParsePredicate ==
  /\ ParseStep("predicate")
  /\ IF Cur.kind = "ATOM"
     THEN /\ UNCHANGED <<pos, errors>>
          /\ last' = "predicate.atom"
          /\ Call("atom", "predicate_args")
     ELSE /\ ErrorAdvance("Predicate must start with an atom")
          /\ last' = "predicate.error"
          /\ Return

\* parse_predicate after parse_atom: the optional '('.
PredicateArgs ==
  /\ ParseStep("predicate_args")
  /\ IF Cur.value = <<"(">>
     THEN /\ MatchSpecial(<<"(">>)
          /\ last' = "predicate_args.open"
          /\ Call("term_list", "predicate_close")
     ELSE /\ UNCHANGED <<pos, errors>>
          /\ last' = "predicate_args.none"
          /\ Return

\* parse_predicate: the ')' after the term list.
PredicateClose ==
  /\ ParseStep("predicate_close")
  /\ MatchSpecial(<<")">>)
  /\ last' = "predicate_close"
  /\ Return

\* parse_term_list, to the first call of parse_term.
ParseTermList ==
  /\ ParseStep("term_list")
  /\ UNCHANGED <<pos, errors>>
  /\ last' = "term_list.first"
  /\ Call("term", "term_list_loop")

\* parse_term_list: the test of the while loop and the match of ','.
TermListLoop ==
  /\ ParseStep("term_list_loop")
  /\ IF Cur.value = <<",">>
     THEN /\ MatchSpecial(<<",">>)
          /\ last' = "term_list_loop.next"
          /\ Goto(<<"term">> \o stack)
     ELSE /\ UNCHANGED <<pos, errors>>
          /\ last' = "term_list_loop.return"
          /\ Return

\* parse_term: atom or structure, variable, numeral, or the error branch.
ParseTerm ==
  /\ ParseStep("term")
  /\ IF Cur.kind = "ATOM"
     THEN /\ UNCHANGED <<pos, errors>>
          /\ last' = "term.atom"
          /\ Call("atom", "term_args")
     ELSE IF Cur.kind = "VARIABLE"
     THEN /\ pos' = MatchPos("VARIABLE", None)
          /\ errors' = MatchErrors("VARIABLE", None)
          /\ last' = "term.variable"
          /\ Return
     ELSE IF Cur.kind = "NUMBER"
     THEN /\ pos' = MatchPos("NUMBER", None)
          /\ errors' = MatchErrors("NUMBER", None)
          /\ last' = "term.number"
          /\ Return
     ELSE /\ ErrorAdvance("Invalid term: expected atom, variable, numeral, or structure")
          /\ last' = "term.error"
          /\ Return

\* parse_term after parse_atom: the '(' of a structure.
TermArgs ==
  /\ ParseStep("term_args")
  /\ IF Cur.value = <<"(">>
     THEN /\ MatchSpecial(<<"(">>)
          /\ last' = "term_args.open"
          /\ Call("term_list", "term_close")
     ELSE /\ UNCHANGED <<pos, errors>>
          /\ last' = "term_args.none"
          /\ Return

\* parse_term: the ')' of a structure.
TermClose ==
  /\ ParseStep("term_close")
  /\ MatchSpecial(<<")">>)
  /\ last' = "term_close"
  /\ Return

\* parse_atom
ParseAtom ==
  /\ ParseStep("atom")
  /\ IF Cur.kind = "ATOM"
     THEN /\ pos' = MatchPos("ATOM", None)
          /\ errors' = MatchErrors("ATOM", None)
          /\ last' = "atom.match"
     ELSE /\ ErrorAdvance("Expected an atom")
          /\ last' = "atom.error"
  /\ Return

ParseNext ==
  \/ ParseProgram \/ ProgramTail \/ ParseClauseList \/ ParseClause
  \/ ClauseTail \/ ClauseDot \/ ParseQuery \/ QueryDot
  \/ ParsePredicateList \/ PredicateListLoop
  \/ ParsePredicate \/ PredicateArgs \/ PredicateClose
  \/ ParseTermList \/ TermListLoop
  \/ ParseTerm \/ TermArgs \/ TermClose \/ ParseAtom

Next == LexNext \/ ParseNext

Spec == Init /\ [][Next]_vars


\* ----------------------------------------------------------------- grammar
\* The grammar the parse_* procedures are written after, as a recognizer of
\* the tokens t[i..j]:
\*   program        := query | clause-list [ query ]
\*   clause         := predicate "."  |  predicate ":-" predicate-list "."
\*   query          := "?-" predicate-list "."
\*   predicate      := atom [ "(" term-list ")" ]
\*   term           := atom | variable | structure | numeral
IsSpecial(t, i, v) == t[i].kind = "SPECIAL" /\ t[i].value = v

RECURSIVE DTerm(_, _, _), DTermList(_, _, _)
DTerm(t, i, j) ==
  \/ i = j /\ t[i].kind \in {"ATOM", "VARIABLE", "NUMBER"}
  \/ /\ j >= i + 3
     /\ t[i].kind = "ATOM"
     /\ IsSpecial(t, i + 1, <<"(">>)
     /\ IsSpecial(t, j, <<")">>)
     /\ DTermList(t, i + 2, j - 1)

DTermList(t, i, j) ==
  /\ i <= j
  /\ \/ DTerm(t, i, j)
     \/ \E k \in i..(j - 2) :
          DTerm(t, i, k) /\ IsSpecial(t, k + 1, <<",">>) /\ DTermList(t, k + 2, j)

DPredicate(t, i, j) ==
  /\ i <= j
  /\ t[i].kind = "ATOM"
  /\ \/ i = j
     \/ /\ j >= i + 3
        /\ IsSpecial(t, i + 1, <<"(">>)
        /\ IsSpecial(t, j, <<")">>)
        /\ DTermList(t, i + 2, j - 1)

RECURSIVE DPredicateList(_, _, _)
DPredicateList(t, i, j) ==
  /\ i <= j
  /\ \/ DPredicate(t, i, j)
     \/ \E k \in i..(j - 2) :
          DPredicate(t, i, k) /\ IsSpecial(t, k + 1, <<",">>) /\ DPredicateList(t, k + 2, j)

DClause(t, i, j) ==
  /\ i < j
  /\ IsSpecial(t, j, <<".">>)
  /\ \/ DPredicate(t, i, j - 1)
     \/ \E k \in (i + 1)..(j - 2) :
          DPredicate(t, i, k - 1) /\ IsSpecial(t, k, <<":", "-">>) /\ DPredicateList(t, k + 1, j - 1)

DQuery(t, i, j) ==
  /\ j >= i + 2
  /\ IsSpecial(t, i, <<"?", "-">>)
  /\ IsSpecial(t, j, <<".">>)
  /\ DPredicateList(t, i + 1, j - 1)

RECURSIVE DClauseList(_, _, _)
DClauseList(t, i, j) ==
  \/ i > j
  \/ \E k \in i..j : DClause(t, i, k) /\ DClauseList(t, k + 1, j)

DProgram(t) ==
  \/ DQuery(t, 1, Len(t))
  \/ \E k \in 0..Len(t) :
       DClauseList(t, 1, k) /\ (k = Len(t) \/ DQuery(t, k + 1, Len(t)))

\* The token sequence before the EOF sentinel.
Toks == SubSeq(tokens, 1, Len(tokens) - 1)

\* ------------------------------------------------------------------ claims
\* C1: when parse_program has returned with an empty error list, the tokens
\* before EOF are derivable from the grammar's program; in particular no
\* token follows the '.' that ends a query.
C1_EmptyErrorsMeansValid ==
  (pc = "done" /\ errors = <<>>) => DProgram(Toks)

\* C2: when the tokens before EOF are derivable from the grammar's program,
\* parse_program records no error.
C2_ValidYieldsNoErrors ==
  (pc = "done" /\ DProgram(Toks)) => errors = <<>>

\* A clause list with nested structures, followed by a query, parsed.
C2_Witness ==
  /\ pc = "done"
  /\ DProgram(Toks)
  /\ errors = <<>>
  /\ \E i \in 2..Len(Toks) : IsSpecial(Toks, i, <<"?", "-">>)
  /\ \E i \in 1..(Len(Toks) - 4) :
       /\ IsSpecial(Toks, i, <<"(">>)
       /\ Toks[i + 1].kind = "ATOM"
       /\ IsSpecial(Toks, i + 2, <<"(">>)

\* C4: when parse_program returns, the cursor is on the EOF sentinel.
C4_FullConsumption ==
  pc = "done" => Cur.kind = "EOF"

\* C7: when the token stream holds an ERROR token, parse_program records at
\* least one error.
C7_ErrorTokenReported ==
  (pc = "done" /\ \E i \in 1..Len(tokens) : tokens[i].kind = "ERROR")
    => errors # <<>>

\* C3: parse_program terminates on every token sequence that ends in EOF,
\* however malformed: until it returns there is a next step to take, and it
\* has never taken more than 4 * len(tokens) + 1 steps, so no loop and no
\* recursion of the parser runs forever.
C3_Terminates ==
  /\ pc = "parse" => ENABLED ParseNext
  /\ steps <= 4 * Len(tokens) + 1

\* A malformed text on which the clause-list loop ran more than once and
\* the pass ended after the most steps its length allows.
C3_Witness ==
  /\ pc = "done"
  /\ Len(errors) >= 3
  /\ Len(tokens) >= 5
  /\ last = "program_tail.return"
  /\ steps = 4 * Len(tokens) + 1

\* The number of newline characters among the first n characters of txt.
RECURSIVE NewlinesBefore(_, _)
NewlinesBefore(txt, n) ==
  IF n = 0 THEN 0
  ELSE NewlinesBefore(txt, n - 1) + (IF txt[n] = "\n" THEN 1 ELSE 0)

LexerPost ==
  /\ Len(tokens) >= 1
  /\ tokens[Len(tokens)].kind = "EOF"
  /\ tokens[Len(tokens)].line = 1 + NewlinesBefore(text, Len(text))
  /\ \A i \in 1..(Len(tokens) - 1) :
       /\ tokens[i].kind # "EOF"
       /\ SubSeq(text, starts[i] + 1, starts[i] + Len(tokens[i].value)) = tokens[i].value
       /\ tokens[i].line = 1 + NewlinesBefore(text, starts[i])

\* C5: tokenize terminates on every text (until the EOF token is appended
\* there is a next match to take and each one moves the offset forward, never
\* beyond the end of the text); its token sequence holds exactly one EOF
\* token, the last one, whose line is 1 plus the number of newlines of the
\* text; every other token's line is 1 plus the number of newlines before
\* its first character.
C5_LexerLines ==
  /\ [](pc = "lex" => (lexpos <= Len(text) /\ ENABLED LexNext))
  /\ [][pc = "lex" => (lexpos' > lexpos \/ pc' = "parse")]_vars
  /\ [](pc # "lex" => LexerPost)

\* A text of three lines or more with a token beyond the first line.
C5_Witness ==
  /\ pc = "done"
  /\ LexerPost
  /\ tokens[Len(tokens)].line >= 3
  /\ \E i \in 1..(Len(tokens) - 1) :
       tokens[i].line >= 2 /\ tokens[i].line < tokens[Len(tokens)].line

\* The single-line facts with two adjacent atom arguments and no comma
\* between them.
MissingCommaShapes == {f \in FactShapes : \E i \in DOMAIN f.seps : f.seps[i] \in NoComma}

MissingCommaTexts == {FactText(f.args, f.seps) : f \in MissingCommaShapes}

\* The first argument that no comma follows.
FirstGap(f) ==
  CHOOSE i \in DOMAIN f.seps :
    f.seps[i] \in NoComma /\ \A k \in 1..(i - 1) : f.seps[k] \notin NoComma

\* The error of a failed match(SPECIAL, value) at the token found.
IsExpected(e, value, found) ==
  /\ e.message = "Expected {expected_type} '{expected_value}' but found {token[0]} '{token[1]}'"
  /\ e.args = <<"SPECIAL", value, "ATOM", found>>

\* C6 as stated: such a fact yields exactly one error, on line 1, which
\* reports that ',' or ')' was expected at the token after the first of the
\* two arguments.
C6_ExactlyOneError ==
  (pc = "done" /\ text \in MissingCommaTexts) => \A f \in MissingCommaShapes :
    text = FactText(f.args, f.seps) =>
      /\ Len(errors) = 1
      /\ errors[1].line = 1
      /\ \/ IsExpected(errors[1], <<",">>, f.args[FirstGap(f) + 1])
         \/ IsExpected(errors[1], <<")">>, f.args[FirstGap(f) + 1])

\* C6 amended: such a fact yields at least one error, exactly three when it
\* has two arguments, every error on line 1, and the first error reports
\* that ')' was expected at the token after the first of the two arguments.
C6_FirstErrorOfCascade ==
  (pc = "done" /\ text \in MissingCommaTexts) => \A f \in MissingCommaShapes :
    text = FactText(f.args, f.seps) =>
      /\ Len(errors) >= 1
      /\ Len(f.args) = 2 => Len(errors) = 3
      /\ \A k \in 1..Len(errors) : errors[k].line = 1
      /\ IsExpected(errors[1], <<")">>, f.args[FirstGap(f) + 1])

\* parent(tom bob)-like fact parsed: three errors.
C6_Witness ==
  /\ pc = "done"
  /\ text = FactText(<<(<<"t", "o", "m">>), <<"a">>>>, <<(<<" ">>)>>)
  /\ Len(errors) = 3
  /\ IsExpected(errors[1], <<")">>, <<"a">>)

\* The error branches of parse_predicate, parse_term and parse_clause.
ErrorBranch ==
  /\ pc = "parse"
  /\ \/ Head(stack) = "predicate" /\ Cur.kind # "ATOM"
     \/ Head(stack) = "term" /\ Cur.kind \notin {"ATOM", "VARIABLE", "NUMBER"}
     \/ Head(stack) = "clause_tail" /\ Cur.value \notin {<<".">>, <<":", "-">>}

OneErrorAtCur ==
  /\ Len(errors') = Len(errors) + 1
  /\ errors'[Len(errors')].line = Cur.line

\* C8 as stated: an error branch appends exactly one error with the current
\* token's line and leaves the cursor exactly one token further, at every
\* cursor position.
C8_AlwaysOneFurther ==
  [][ErrorBranch => (OneErrorAtCur /\ pos' = pos + 1)]_vars

\* C8 amended: an error branch appends exactly one error with the current
\* token's line and leaves the cursor exactly one token further, except on
\* the EOF sentinel, where the cursor stays.
C8_OneFurtherUnlessEOF ==
  [][ErrorBranch =>
       (OneErrorAtCur /\ pos' = IF Cur.kind = "EOF" THEN pos ELSE pos + 1)]_vars

\* The error branch of parse_clause taken on the EOF sentinel (text "a").
C8_Witness ==
  /\ last = "clause_tail.error"
  /\ Len(tokens) = 2
  /\ pos = 1
  /\ Len(errors) = 1
  /\ errors[1].line = tokens[2].line

\* C9: while parse_program runs, 0 <= pos <= len(tokens) - 1, pos never
\* decreases, a step changes it by 0 or 1, and on the EOF sentinel it does
\* not change.
C9_CursorInvariant ==
  [][/\ pc' # "lex" => (0 <= pos' /\ pos' <= Len(tokens') - 1)
     /\ pc = "parse" => (pos' = pos \/ pos' = pos + 1)
     /\ (pc = "parse" /\ Cur.kind = "EOF") => pos' = pos]_vars

\* advance() called on the EOF sentinel (text "a(": the error branch of
\* parse_term).
C9_Witness ==
  /\ last = "term.error"
  /\ Len(tokens) = 3
  /\ pos = Len(tokens) - 1
  /\ tokens[pos + 1].kind = "EOF"

\* C10: the error list only grows by appending, each new error carries the
\* line of the token under the cursor, and the lines of the list never
\* decrease.
C10_ErrorsInOrder ==
  /\ [][\/ errors' = errors
        \/ /\ Len(errors') = Len(errors) + 1
           /\ SubSeq(errors', 1, Len(errors)) = errors
           /\ errors'[Len(errors')].line = Cur.line]_vars
  /\ [](\A i \in 1..(Len(errors) - 1) : errors[i].line <= errors[i + 1].line)

\* Errors on two different lines, the pass ended.
C10_Witness ==
  /\ pc = "done"
  /\ Len(errors) >= 2
  /\ errors[1].line < errors[Len(errors)].line
====
